---- MODULE Spec2Model ----
(***************************************************************************)
(* Model of the synchronization engine of OnshapeToDb:                     *)
(*   app/services/sync_service.py  (SyncService)                           *)
(*   app/models/onshape_models.py  (unique external keys, SyncLog)         *)
(*   app/database.py               (SessionLocal, autoflush = False)       *)
(*   app/services/onshape_client.py (OnshapeClient: signing and dispatch)  *)
(* The remote API and the storage engine are the environment: a remote     *)
(* call answers with a page or fails, a commit succeeds or is rejected.    *)
(***************************************************************************)
EXTENDS Integers, Sequences, FiniteSets, TLC

VARIABLES
    db,         \* committed entity tables: kind -> sequence of rows
    jobs,       \* committed sync_logs table: sequence of SyncLog rows
    closeCalls, \* per job: how many times _update_sync_log was called on it
    pending,    \* session: objects added with db.add, not yet flushed
    dirty,      \* session: attribute changes of loaded rows, not yet flushed
    op,         \* the running sync_* call (its locals and position)
    full,       \* the running full_sync call (its locals and position)
    hist,       \* what the running sync_* call has observed so far
    budget,     \* storage failures the storage engine may still inject
    runs,       \* top-level invocations started so far
    client      \* the remote client: the requests it dispatched, its last outcome

vars == <<db, jobs, closeCalls, pending, dirty, op, full, hist, budget, runs, client>>

----------------------------------------------------------------------------
(* Bounds of the model *)

MaxKey == 2
MaxVal == 2
MaxPage == 2
MaxFaults == 1
MaxRuns == 2
MaxFullRuns == 1
MaxFullFaults == 2
NonceLen == 2
MaxClock == 2
MaxRequests == 2

----------------------------------------------------------------------------
(* Data *)

Kinds == {"documents", "workspaces", "elements", "parts", "features"}

Keys == 1..MaxKey
Vals == 1..MaxVal

\* Python's None / a missing key of a remote record
None == 0

\* An item of a fetched list. shape "bad" is an item that is not a key/value
\* object; id = None is a record without its external key.
Item(shape, id, name, isMain, elementType) ==
    [shape |-> shape, id |-> id, name |-> name, isMain |-> isMain,
     elementType |-> elementType]

BadItem == Item("bad", None, 1, FALSE, "None")

Items(kind) ==
    LET ids == 0..MaxKey
        names(id) == IF id # None /\ kind \in {"documents", "features"}
                     THEN Vals ELSE {1}
        mains(id) == IF kind = "workspaces" /\ id # None THEN BOOLEAN ELSE {FALSE}
        types(id) == IF kind = "elements" /\ id # None
                     THEN {"PARTSTUDIO", "ASSEMBLY"} ELSE {"None"}
    IN  {BadItem} \cup
        UNION { { Item("dict", id, n, m, t) : n \in names(id), m \in mains(id),
                                             t \in types(id) } : id \in ids }

RECURSIVE SeqsUpTo(_, _)
SeqsUpTo(S, n) ==
    IF n = 0 THEN {<<>>}
    ELSE LET shorter == SeqsUpTo(S, n - 1)
         IN  shorter \cup { Append(s, x) : s \in {t \in shorter : Len(t) = n - 1}, x \in S }

Pages(kind) == SeqsUpTo(Items(kind), MaxPage)

\* The pages a full sync is checked on: key/value records that carry their
\* key, one name. A document list of one or two documents; a workspace list
\* that is empty, has a main workspace (alone or beside another) or has none
\* flagged main; an element list with part studios, an assembly or an element
\* without elementType; one part, one feature.
Rec(kind, id, isMain, elementType) == Item("dict", id, 1, isMain, elementType)

FullPages(kind) ==
    CASE kind = "documents" ->
           { <<Rec(kind, 1, FALSE, "None")>>,
             <<Rec(kind, 1, FALSE, "None"), Rec(kind, 2, FALSE, "None")>> }
      [] kind = "workspaces" ->
           { <<>>,
             <<Rec(kind, 1, FALSE, "None")>>,
             <<Rec(kind, 2, TRUE, "None")>>,
             <<Rec(kind, 1, TRUE, "None"), Rec(kind, 2, FALSE, "None")>> }
      [] kind = "elements" ->
           { <<>>,
             <<Rec(kind, 1, FALSE, "PARTSTUDIO"), Rec(kind, 2, FALSE, "ASSEMBLY")>>,
             <<Rec(kind, 1, FALSE, "PARTSTUDIO"), Rec(kind, 2, FALSE, "PARTSTUDIO")>>,
             <<Rec(kind, 2, FALSE, "None")>> }
      [] kind = "parts" -> { <<Rec(kind, 1, FALSE, "None")>> }
      [] kind = "features" -> { <<Rec(kind, 1, FALSE, "None")>> }

\* The pages a full sync on a failing storage engine is checked on.
FaultPages(kind) ==
    CASE kind = "documents"  -> { <<Rec(kind, 1, FALSE, "None")>> }
      [] kind = "workspaces" -> { <<Rec(kind, 1, TRUE, "None")>> }
      [] kind = "elements"   -> { <<Rec(kind, 1, FALSE, "PARTSTUDIO"),
                                     Rec(kind, 2, FALSE, "ASSEMBLY")>> }
      [] kind = "parts"      -> { <<Rec(kind, 1, FALSE, "None")>> }
      [] kind = "features"   -> { <<Rec(kind, 1, FALSE, "None")>> }

\* The answers of the mass-properties fetch a full sync is checked on.
FullMasses(kind) == IF kind = "parts" THEN {None, 1} ELSE {None}

\* A row of an entity table (onshape_models.py). The surrogate id is the
\* position of the row in its table.
Row(key, parent, name, is_main, element_type, mass_properties) ==
    [key |-> key, parent |-> parent, name |-> name, is_main |-> is_main,
     element_type |-> element_type, mass_properties |-> mass_properties]

\* A row of sync_logs. completed_at counts the writes of the column (0 = NULL).
SyncLog(sync_type, status, records_processed, errors_count, completed_at) ==
    [sync_type |-> sync_type, status |-> status,
     records_processed |-> records_processed, errors_count |-> errors_count,
     completed_at |-> completed_at]

EmptyTables == [k \in Kinds |-> <<>>]
NoDirty == [k \in Kinds |-> <<>>]

\* What an earlier full sync over document 1 (a main workspace and another, a
\* part studio and an assembly, one part, one feature) left in storage.
MirroredTables ==
    [k \in Kinds |->
        CASE k = "documents"  -> <<Row(1, None, 1, FALSE, "None", None)>>
          [] k = "workspaces" -> <<Row(1, 1, 1, TRUE, "None", None),
                                   Row(2, 1, 1, FALSE, "None", None)>>
          [] k = "elements"   -> <<Row(1, 1, 1, FALSE, "PARTSTUDIO", None),
                                   Row(2, 1, 1, FALSE, "ASSEMBLY", None)>>
          [] k = "parts"      -> <<Row(1, 1, 1, FALSE, "None", 1)>>
          [] k = "features"   -> <<Row(1, 1, 1, FALSE, "None", None)>>]

MirroredJobs ==
    << SyncLog("full_sync", "success", 7, 0, 1),
       SyncLog("documents", "success", 1, 0, 1),
       SyncLog("workspaces", "success", 2, 0, 1),
       SyncLog("elements", "success", 2, 0, 1),
       SyncLog("parts", "success", 1, 0, 1),
       SyncLog("features", "success", 1, 0, 1) >>

----------------------------------------------------------------------------
(* Storage: tables with a unique external key, and the session in front *)

\* Column(..., unique=True) on document_id, workspace_id, element_id, part_id,
\* feature_id: no two rows of a table carry the same external key.
UniqueKeys(tbl) ==
    \A i, j \in DOMAIN tbl : i # j => tbl[i].key # tbl[j].key

\* Mutant of Lookup: the query filters on nothing that matches, so every key
\* looks new.
LookupMiss(tbl, key) == None

\* db.query(Model).filter(Model.<key> == key).first(): the surrogate id of the
\* stored row with this key, None when there is none. With autoflush=False the
\* query reads the committed table, not the objects pending in the session.
Lookup(tbl, key) ==
    IF \E i \in DOMAIN tbl : tbl[i].key = key
    THEN CHOOSE i \in DOMAIN tbl :
             /\ tbl[i].key = key
             /\ \A j \in DOMAIN tbl : tbl[j].key = key => i <= j
    ELSE None

\* What a flush writes: the changed attributes of loaded rows, then the
\* pending inserts.
Flushed(kind) ==
    [i \in DOMAIN db[kind] |->
        IF i \in DOMAIN dirty[kind] THEN dirty[kind][i] ELSE db[kind][i]]
    \o pending[kind]

\* Key columns without a unique constraint: every flush is accepted.
IntegrityUnchecked == TRUE

\* The flush is accepted when no unique constraint is violated.
IntegrityOK == \A k \in Kinds : UniqueKeys(Flushed(k))

\* Every request works in a session of its own, empty at the start.
ClearSession ==
    /\ pending' = EmptyTables
    /\ dirty' = NoDirty

\* db.commit() succeeding: everything in the session becomes durable.
CommitOK(newjobs) ==
    /\ IntegrityOK
    /\ db' = [k \in Kinds |-> Flushed(k)]
    /\ jobs' = newjobs
    /\ ClearSession
    /\ budget' = budget

\* db.commit() raising: an IntegrityError of the flush, or the storage engine
\* rejecting the transaction. The transaction is rolled back: pending objects
\* are expunged, loaded ones expired.
CommitFails ==
    /\ \/ /\ ~IntegrityOK
          /\ budget' = budget
       \/ /\ IntegrityOK
          /\ budget > 0
          /\ budget' = budget - 1
    /\ UNCHANGED <<db, jobs>>
    /\ ClearSession

----------------------------------------------------------------------------
(* Reconciliation of one record *)

\* Mutant of HasKey: the check for a missing key is left out.
HasKeyAlways(item) == TRUE

\* `if not document_id: continue` and its four siblings
HasKey(item) == item.id # None

\* Mutant of MassFailureRaises: the inner try around the mass-properties fetch
\* is missing.
MassFailurePropagates == TRUE

\* `except Exception: pass` around get_part_mass_properties: a failing
\* mass-properties fetch does not raise out of the record.
MassFailureRaises == FALSE

\* The parent linkage a new row gets.
ParentOf(kind, args) ==
    CASE kind = "documents"  -> None
      [] kind = "workspaces" -> args.document_id
      [] kind = "elements"   -> args.document_id
      [] kind = "parts"      -> args.element_id
      [] kind = "features"   -> args.element_id

\* The mutable fields read from the remote record: from the detailed document
\* for a document, from the list item otherwise; mass is the result of the
\* mass-properties fetch (None when it failed).
Remote(kind, item, detail, mass) ==
    [name |-> IF kind = "documents" THEN detail ELSE item.name,
     is_main |-> IF kind = "workspaces" THEN item.isMain ELSE FALSE,
     element_type |-> IF kind = "elements" THEN item.elementType ELSE "None",
     mass_properties |-> IF kind = "parts" THEN mass ELSE None]

Mutable(row) ==
    [name |-> row.name, is_main |-> row.is_main,
     element_type |-> row.element_type, mass_properties |-> row.mass_properties]

\* Mutant of Updated: the existing row is found and nothing is assigned to it.
UpdatedNothing(row, r) == row

\* An update that keeps the stored mass properties when the fetch gave none.
UpdatedKeepingMass(row, r) ==
    [row EXCEPT !.name = r.name, !.is_main = r.is_main,
                !.element_type = r.element_type,
                !.mass_properties = IF r.mass_properties = None THEN @
                                    ELSE r.mass_properties]

\* An update that also moves the row under the parent of the running call.
UpdatedReparenting(row, r) ==
    [row EXCEPT !.parent = ParentOf(op.kind, op.args),
                !.name = r.name, !.is_main = r.is_main,
                !.element_type = r.element_type,
                !.mass_properties = r.mass_properties]

\* The `if existing: ... else: ...` branch.
Updated(row, r) ==
    [row EXCEPT !.name = r.name, !.is_main = r.is_main,
                !.element_type = r.element_type,
                !.mass_properties = r.mass_properties]

Created(key, parent, r) ==
    Row(key, parent, r.name, r.is_main, r.element_type, r.mass_properties)

\* The loaded object as the session holds it.
Loaded(kind, i) ==
    IF i \in DOMAIN dirty[kind] THEN dirty[kind][i] ELSE db[kind][i]

----------------------------------------------------------------------------
(* One sync_* call: sync_documents, sync_document_workspaces,               *)
(* sync_document_elements, sync_parts, sync_features                        *)

Args(document_id, workspace_id, element_id) ==
    [document_id |-> document_id, workspace_id |-> workspace_id,
     element_id |-> element_id]

NoArgs == Args(None, None, None)

NoResult == [status |-> "none", processed |-> 0, errors |-> 0]

IdleOp ==
    [pc |-> "idle", kind |-> "documents", args |-> NoArgs, force_refresh |-> FALSE,
     sync_log |-> None, page |-> <<>>, i |-> 1, processed |-> 0, errors |-> 0,
     result |-> NoResult]

\* What the running sync_* call has seen: the table as it found it, the remote
\* values it last read for keys it found stored, the keys whose mass-properties
\* fetch failed, the records that raised, the keys it reconciled, and whether
\* its list fetch failed.
NoHist ==
    [pre |-> <<>>, obs |-> <<>>, mpFailed |-> {}, raised |-> 0, stored |-> {},
     listFailed |-> FALSE]

KeysOf(tbl) == { tbl[i].key : i \in DOMAIN tbl }

\* Entry of a sync_* function with its arguments.
Call(kind, args, force_refresh) ==
    /\ op' = [IdleOp EXCEPT !.pc = "create", !.kind = kind, !.args = args,
                            !.force_refresh = force_refresh]
    /\ hist' = [NoHist EXCEPT !.pre = db[kind]]

\* _create_sync_log: add a SyncLog with status in_progress and commit.
create_sync_log(sync_type) ==
    Append(jobs, SyncLog(sync_type, "in_progress", 0, 0, 0))

\* _update_sync_log: set status, counts and completed_at on the SyncLog; the
\* value is the sync_logs table its commit writes.
update_sync_log(n, status, records_processed, errors_count) ==
    [jobs EXCEPT ![n] = [@ EXCEPT !.status = status,
                                  !.records_processed = records_processed,
                                  !.errors_count = errors_count,
                                  !.completed_at = @ + 1]]

\* sync_*: line 1, the job is opened and committed.
OpenJob ==
    /\ op.pc = "create"
    /\ CommitOK(create_sync_log(op.kind))
    /\ closeCalls' = Append(closeCalls, 0)
    /\ op' = [op EXCEPT !.pc = "fetch", !.sync_log = Len(jobs) + 1]
    /\ UNCHANGED <<full, hist, runs, client>>

\* The commit of _create_sync_log raises: no job exists, nothing catches it
\* inside sync_*.
OpenJobFails ==
    /\ op.pc = "create"
    /\ CommitFails
    /\ op' = [op EXCEPT !.pc = "raised"]
    /\ UNCHANGED <<closeCalls, full, hist, runs, client>>

\* The remote list call answers with a page.
Fetch(page) ==
    /\ op.pc = "fetch"
    /\ op' = [op EXCEPT !.pc = "loop", !.page = page, !.i = 1,
                        !.processed = 0, !.errors = 0]
    /\ UNCHANGED <<db, jobs, closeCalls, pending, dirty, full, hist,
                   budget, runs, client>>

\* Mutant of FetchFails: the failure of the remote list call leaves sync_*.
FetchFailsPropagating ==
    /\ op.pc = "fetch"
    /\ op' = [op EXCEPT !.pc = "raised"]
    /\ hist' = [hist EXCEPT !.listFailed = TRUE]
    /\ UNCHANGED <<db, jobs, closeCalls, pending, dirty, full, budget, runs, client>>

\* The remote list call raises: control goes to the outer except.
FetchFails ==
    /\ op.pc = "fetch"
    /\ op' = [op EXCEPT !.pc = "except"]
    /\ hist' = [hist EXCEPT !.listFailed = TRUE]
    /\ UNCHANGED <<db, jobs, closeCalls, pending, dirty, full, budget, runs, client>>

InLoop == op.pc = "loop" /\ op.i <= Len(op.page)

Cur == op.page[op.i]

\* An item that is not a key/value object: item.get raises inside the try, the
\* inner except evaluates item.get again for its log line, which raises out of
\* the loop into the outer except (errors is not incremented).
RecordBadShape ==
    /\ InLoop
    /\ Cur.shape = "bad"
    /\ op' = [op EXCEPT !.pc = "except"]
    /\ hist' = [hist EXCEPT !.raised = @ + 1]
    /\ UNCHANGED <<db, jobs, closeCalls, pending, dirty, full,
                   budget, runs, client>>

\* Mutant of RecordNoKey: a record without its key is counted as an error.
RecordNoKeyAsError ==
    /\ op.pc = "loop" /\ op.i <= Len(op.page)
    /\ op.page[op.i].shape = "dict"
    /\ op.page[op.i].id = None
    /\ op' = [op EXCEPT !.i = @ + 1, !.errors = @ + 1]
    /\ UNCHANGED <<db, jobs, closeCalls, pending, dirty, full, hist,
                   budget, runs, client>>

\* `if not <key>: continue`
RecordNoKey ==
    /\ InLoop
    /\ Cur.shape = "dict"
    /\ ~HasKey(Cur)
    /\ op' = [op EXCEPT !.i = @ + 1]
    /\ UNCHANGED <<db, jobs, closeCalls, pending, dirty, full, hist,
                   budget, runs, client>>

\* The look-up query raises inside the try (the storage engine fails the
\* statement): the inner except counts one error and the loop goes on.
RecordQueryRaises ==
    /\ InLoop
    /\ Cur.shape = "dict"
    /\ HasKey(Cur)
    /\ budget > 0
    /\ budget' = budget - 1
    /\ op' = [op EXCEPT !.i = @ + 1, !.errors = @ + 1]
    /\ hist' = [hist EXCEPT !.raised = @ + 1]
    /\ UNCHANGED <<db, jobs, closeCalls, pending, dirty, full, runs, client>>

\* A skip that counts the stored document as processed.
RecordSkipExistingCounted ==
    /\ InLoop
    /\ Cur.shape = "dict"
    /\ HasKey(Cur)
    /\ op.kind = "documents"
    /\ Lookup(db[op.kind], Cur.id) # None
    /\ ~op.force_refresh
    /\ op' = [op EXCEPT !.i = @ + 1, !.processed = @ + 1]
    /\ hist' = [hist EXCEPT !.obs = (Cur.id :> Remote(op.kind, Cur, Cur.name, None)) @@ @]
    /\ UNCHANGED <<db, jobs, closeCalls, pending, dirty, full,
                   budget, runs, client>>

\* sync_documents only: `if existing_doc and not force_refresh: continue`
RecordSkipExisting ==
    /\ InLoop
    /\ Cur.shape = "dict"
    /\ HasKey(Cur)
    /\ op.kind = "documents"
    /\ Lookup(db[op.kind], Cur.id) # None
    /\ ~op.force_refresh
    /\ op' = [op EXCEPT !.i = @ + 1]
    /\ hist' = [hist EXCEPT !.obs = (Cur.id :> Remote(op.kind, Cur, Cur.name, None)) @@ @]
    /\ UNCHANGED <<db, jobs, closeCalls, pending, dirty, full,
                   budget, runs, client>>

\* sync_documents only: get_document raises inside the try, the inner except
\* counts one error and the loop goes on.
RecordDetailFails ==
    /\ InLoop
    /\ Cur.shape = "dict"
    /\ HasKey(Cur)
    /\ op.kind = "documents"
    /\ Lookup(db[op.kind], Cur.id) = None \/ op.force_refresh
    /\ op' = [op EXCEPT !.i = @ + 1, !.errors = @ + 1]
    /\ hist' = [hist EXCEPT !.raised = @ + 1]
    /\ UNCHANGED <<db, jobs, closeCalls, pending, dirty, full,
                   budget, runs, client>>

Details(kind) == IF kind = "documents" THEN Vals ELSE {None}

\* mass = None is the mass-properties fetch failing.
Masses(kind) == IF kind = "parts" THEN {None} \cup Vals ELSE {None}

\* The record is reconciled: look up by external key, overwrite the mutable
\* fields of the existing row or add a new row, count it as processed.
\* detail is the answer of get_document (documents), mass the answer of
\* get_part_mass_properties (parts).
RecordUpsert(detail, mass) ==
    LET kind == op.kind
        existing == Lookup(db[kind], Cur.id)
        r == Remote(kind, Cur, detail, mass)
    IN  /\ InLoop
        /\ Cur.shape = "dict"
        /\ HasKey(Cur)
        /\ ~(kind = "documents" /\ existing # None /\ ~op.force_refresh)
        /\ IF kind = "parts" /\ mass = None /\ MassFailureRaises
           THEN /\ op' = [op EXCEPT !.i = @ + 1, !.errors = @ + 1]
                /\ hist' = [hist EXCEPT !.raised = @ + 1,
                                        !.mpFailed = @ \cup {Cur.id}]
                /\ UNCHANGED <<pending, dirty>>
           ELSE /\ IF existing # None
                   THEN /\ dirty' = [dirty EXCEPT ![kind] =
                              (existing :> Updated(Loaded(kind, existing), r)) @@ @]
                        /\ UNCHANGED pending
                   ELSE /\ pending' = [pending EXCEPT ![kind] =
                              Append(@, Created(Cur.id, ParentOf(kind, op.args), r))]
                        /\ UNCHANGED dirty
                /\ op' = [op EXCEPT !.i = @ + 1, !.processed = @ + 1]
                /\ hist' = [hist EXCEPT
                      !.obs = IF existing # None THEN (Cur.id :> r) @@ @ ELSE @,
                      !.mpFailed = IF kind = "parts" /\ mass = None
                                   THEN @ \cup {Cur.id} ELSE @,
                      !.stored = @ \cup {Cur.id}]
        /\ UNCHANGED <<db, jobs, closeCalls, full, budget, runs, client>>

AtCommit == op.pc = "loop" /\ op.i > Len(op.page)

\* A sync that closes its job without committing the batch first.
BatchCommitSkipped ==
    /\ AtCommit
    /\ op' = [op EXCEPT !.pc = "close"]
    /\ UNCHANGED <<db, jobs, closeCalls, pending, dirty, full, hist,
                   budget, runs, client>>

\* A sync that mirrors deletions: stored rows of the kind whose key the
\* fetched page does not list are removed with the batch commit.
BatchCommitPruning ==
    LET listed == { op.page[i].id : i \in DOMAIN op.page }
        Listed(row) == row.key \in listed
    IN  /\ AtCommit
        /\ IntegrityOK
        /\ db' = [k \in Kinds |->
                     IF k = op.kind THEN SelectSeq(Flushed(k), Listed)
                     ELSE Flushed(k)]
        /\ jobs' = jobs
        /\ ClearSession
        /\ budget' = budget
        /\ op' = [op EXCEPT !.pc = "close"]
        /\ UNCHANGED <<closeCalls, full, hist, runs, client>>

\* After the loop: self.db.commit() makes the batch durable.
BatchCommit ==
    /\ AtCommit
    /\ CommitOK(jobs)
    /\ op' = [op EXCEPT !.pc = "close"]
    /\ UNCHANGED <<closeCalls, full, hist, runs, client>>

\* The batch commit raises: rolled back, control goes to the outer except.
BatchCommitFails ==
    /\ AtCommit
    /\ CommitFails
    /\ op' = [op EXCEPT !.pc = "except"]
    /\ UNCHANGED <<closeCalls, full, hist, runs, client>>

SuccessResult == [status |-> "success", processed |-> op.processed, errors |-> op.errors]

\* An error dictionary that carries the failure as one error.
ErrorResultCounted == [status |-> "error", processed |-> 0, errors |-> 1]

\* The error dictionary carries neither 'processed' nor 'errors': a caller's
\* .get(..., 0) reads 0 for both.
ErrorResult == [status |-> "error", processed |-> 0, errors |-> 0]

CountClose == closeCalls' = [closeCalls EXCEPT ![op.sync_log] = @ + 1]

\* _update_sync_log(sync_log, "success", processed, errors, ...) and return.
CloseSuccess ==
    /\ op.pc = "close"
    /\ CommitOK(update_sync_log(op.sync_log, "success", op.processed, op.errors))
    /\ CountClose
    /\ op' = [op EXCEPT !.pc = "done", !.result = SuccessResult]
    /\ UNCHANGED <<full, hist, runs, client>>

\* The commit inside that _update_sync_log raises: control goes to the outer
\* except with the job still in_progress in storage.
CloseSuccessFails ==
    /\ op.pc = "close"
    /\ CommitFails
    /\ CountClose
    /\ op' = [op EXCEPT !.pc = "except"]
    /\ UNCHANGED <<full, hist, runs, client>>

\* except Exception: _update_sync_log(sync_log, "error", 0, 1, str(e)) and
\* return the error dictionary. Its commit flushes whatever the session holds.
CloseError ==
    /\ op.pc = "except"
    /\ CommitOK(update_sync_log(op.sync_log, "error", 0, 1))
    /\ CountClose
    /\ op' = [op EXCEPT !.pc = "done", !.result = ErrorResult]
    /\ UNCHANGED <<full, hist, runs, client>>

\* The commit inside the except handler raises: the exception leaves sync_*.
CloseErrorFails ==
    /\ op.pc = "except"
    /\ CommitFails
    /\ CountClose
    /\ op' = [op EXCEPT !.pc = "raised"]
    /\ UNCHANGED <<full, hist, runs, client>>

----------------------------------------------------------------------------
(* full_sync *)

\* `self.db.query(Document).limit(10).all()  # Limit for demo`
DocumentLimit == 10

IdleFull ==
    [pc |-> "idle", sync_log |-> None, document_ids |-> {},
     total_processed |-> 0, total_errors |-> 0, doc_result |-> NoResult,
     documents |-> {}, document |-> None, main_workspace |-> None,
     elements |-> {}, element |-> None]

Waiting == {"documents", "workspaces", "elements", "parts", "features"}

\* total_processed += result.get('processed', 0); total_errors += result.get('errors', 0)
AddTotals(f, result) ==
    [f EXCEPT !.total_processed = @ + result.processed,
              !.total_errors = @ + result.errors]

\* full_sync: the root job is opened and committed.
FullOpenJob ==
    /\ full.pc = "create"
    /\ CommitOK(create_sync_log("full_sync"))
    /\ closeCalls' = Append(closeCalls, 0)
    /\ full' = [full EXCEPT !.pc = "start", !.sync_log = Len(jobs) + 1]
    /\ UNCHANGED <<op, hist, runs, client>>

FullOpenJobFails ==
    /\ full.pc = "create"
    /\ CommitFails
    /\ full' = [full EXCEPT !.pc = "raised"]
    /\ UNCHANGED <<closeCalls, op, hist, runs, client>>

\* doc_result = self.sync_documents()
FullCallDocuments ==
    /\ full.pc = "start"
    /\ Call("documents", NoArgs, FALSE)
    /\ full' = [full EXCEPT !.pc = "documents"]
    /\ UNCHANGED <<db, jobs, closeCalls, pending, dirty, budget, runs, client>>

\* sync_documents returned: add its counts, then query the documents to
\* descend into: those of document_ids when given, else at most 10.
FullAfterDocuments(documents) ==
    /\ full.pc = "documents"
    /\ op.pc = "done"
    /\ LET stored == KeysOf(db["documents"])
           limit == IF Cardinality(stored) < DocumentLimit
                    THEN Cardinality(stored) ELSE DocumentLimit
       IN  IF full.document_ids # {}
           THEN documents = stored \cap full.document_ids
           ELSE documents \subseteq stored /\ Cardinality(documents) = limit
    /\ full' = [AddTotals(full, op.result) EXCEPT
                   !.pc = "docloop", !.doc_result = op.result,
                   !.documents = documents]
    /\ op' = IdleOp
    /\ hist' = NoHist
    /\ UNCHANGED <<db, jobs, closeCalls, pending, dirty, budget, runs, client>>

\* for document in documents: workspace_result = self.sync_document_workspaces(...)
FullCallWorkspaces(document) ==
    /\ full.pc = "docloop"
    /\ document \in full.documents
    /\ Call("workspaces", Args(document, None, None), FALSE)
    /\ full' = [full EXCEPT !.pc = "workspaces", !.document = document,
                            !.documents = @ \ {document}]
    /\ UNCHANGED <<db, jobs, closeCalls, pending, dirty, budget, runs, client>>

\* Workspace rows of the document flagged main; .first() takes one of them.
MainWorkspaces(document) ==
    { db["workspaces"][i].key : i \in
        { j \in DOMAIN db["workspaces"] :
            /\ db["workspaces"][j].parent = document
            /\ db["workspaces"][j].is_main } }

\* Mutant of FullAfterWorkspaces: a document without a main workspace raises
\* into the except of full_sync.
FullAfterWorkspacesRaising(main_workspace) ==
    /\ full.pc = "workspaces"
    /\ op.pc = "done"
    /\ IF MainWorkspaces(full.document) = {}
       THEN main_workspace = None
       ELSE main_workspace \in MainWorkspaces(full.document)
    /\ full' = [AddTotals(full, op.result) EXCEPT
                   !.pc = IF main_workspace = None THEN "except" ELSE "main",
                   !.main_workspace = main_workspace]
    /\ op' = IdleOp
    /\ hist' = NoHist
    /\ UNCHANGED <<db, jobs, closeCalls, pending, dirty, budget, runs, client>>

\* sync_document_workspaces returned: add its counts and look up the main
\* workspace of the document in storage.
FullAfterWorkspaces(main_workspace) ==
    /\ full.pc = "workspaces"
    /\ op.pc = "done"
    /\ IF MainWorkspaces(full.document) = {}
       THEN main_workspace = None
       ELSE main_workspace \in MainWorkspaces(full.document)
    /\ full' = [AddTotals(full, op.result) EXCEPT
                   !.pc = IF main_workspace = None THEN "docloop" ELSE "main",
                   !.main_workspace = main_workspace]
    /\ op' = IdleOp
    /\ hist' = NoHist
    /\ UNCHANGED <<db, jobs, closeCalls, pending, dirty, budget, runs, client>>

\* if main_workspace: elements_result = self.sync_document_elements(...)
FullCallElements ==
    /\ full.pc = "main"
    /\ Call("elements", Args(full.document, full.main_workspace, None), FALSE)
    /\ full' = [full EXCEPT !.pc = "elements"]
    /\ UNCHANGED <<db, jobs, closeCalls, pending, dirty, budget, runs, client>>

\* self.db.query(Element).filter(Element.document_id == document.document_id).all()
ElementsOf(document) ==
    { db["elements"][i].key : i \in
        { j \in DOMAIN db["elements"] : db["elements"][j].parent = document } }

\* sync_document_elements returned: add its counts and list the stored
\* elements of the document.
FullAfterElements ==
    /\ full.pc = "elements"
    /\ op.pc = "done"
    /\ full' = [AddTotals(full, op.result) EXCEPT
                   !.pc = "elemloop", !.elements = ElementsOf(full.document)]
    /\ op' = IdleOp
    /\ hist' = NoHist
    /\ UNCHANGED <<db, jobs, closeCalls, pending, dirty, budget, runs, client>>

ElementType(element) ==
    db["elements"][Lookup(db["elements"], element)].element_type

\* for element in elements: if element.element_type == 'PARTSTUDIO': sync_parts(...)
FullCallParts(element) ==
    /\ full.pc = "elemloop"
    /\ element \in full.elements
    /\ ElementType(element) = "PARTSTUDIO"
    /\ Call("parts", Args(full.document, full.main_workspace, element), FALSE)
    /\ full' = [full EXCEPT !.pc = "parts", !.element = element,
                            !.elements = @ \ {element}]
    /\ UNCHANGED <<db, jobs, closeCalls, pending, dirty, budget, runs, client>>

\* Mutant of FullSkipElement: parts are synced for an element of another type.
FullSkipElementSyncing(element) ==
    /\ full.pc = "elemloop"
    /\ element \in full.elements
    /\ ElementType(element) # "PARTSTUDIO"
    /\ Call("parts", Args(full.document, full.main_workspace, element), FALSE)
    /\ full' = [full EXCEPT !.pc = "parts", !.element = element,
                            !.elements = @ \ {element}]
    /\ UNCHANGED <<db, jobs, closeCalls, pending, dirty, budget, runs, client>>

\* An element of another type: nothing is run for it.
FullSkipElement(element) ==
    /\ full.pc = "elemloop"
    /\ element \in full.elements
    /\ ElementType(element) # "PARTSTUDIO"
    /\ full' = [full EXCEPT !.elements = @ \ {element}]
    /\ UNCHANGED <<db, jobs, closeCalls, pending, dirty, op, hist, budget, runs, client>>

\* sync_parts returned: add its counts and call sync_features for the element.
FullAfterParts ==
    /\ full.pc = "parts"
    /\ op.pc = "done"
    /\ full' = [AddTotals(full, op.result) EXCEPT !.pc = "features"]
    /\ Call("features", Args(full.document, full.main_workspace, full.element), FALSE)
    /\ UNCHANGED <<db, jobs, closeCalls, pending, dirty, budget, runs, client>>

\* sync_features returned: add its counts, next element.
FullAfterFeatures ==
    /\ full.pc = "features"
    /\ op.pc = "done"
    /\ full' = [AddTotals(full, op.result) EXCEPT !.pc = "elemloop"]
    /\ op' = IdleOp
    /\ hist' = NoHist
    /\ UNCHANGED <<db, jobs, closeCalls, pending, dirty, budget, runs, client>>

\* The elements of the document are exhausted: next document.
FullNextDocument ==
    /\ full.pc = "elemloop"
    /\ full.elements = {}
    /\ full' = [full EXCEPT !.pc = "docloop", !.element = None]
    /\ UNCHANGED <<db, jobs, closeCalls, pending, dirty, op, hist, budget, runs, client>>

\* A nested sync_* raised (the commit of its _create_sync_log or of its except
\* handler failed): control goes to the except of full_sync.
FullNestedRaised ==
    /\ full.pc \in Waiting
    /\ op.pc = "raised"
    /\ full' = [full EXCEPT !.pc = "except"]
    /\ op' = IdleOp
    /\ hist' = NoHist
    /\ UNCHANGED <<db, jobs, closeCalls, pending, dirty, budget, runs, client>>

CountFullClose == closeCalls' = [closeCalls EXCEPT ![full.sync_log] = @ + 1]

\* After the loop over the documents:
\* _update_sync_log(sync_log, "success", total_processed, total_errors, ...)
FullCloseSuccess ==
    /\ full.pc = "docloop"
    /\ full.documents = {}
    /\ CommitOK(update_sync_log(full.sync_log, "success",
                                full.total_processed, full.total_errors))
    /\ CountFullClose
    /\ full' = [full EXCEPT !.pc = "done"]
    /\ UNCHANGED <<op, hist, runs, client>>

FullCloseSuccessFails ==
    /\ full.pc = "docloop"
    /\ full.documents = {}
    /\ CommitFails
    /\ CountFullClose
    /\ full' = [full EXCEPT !.pc = "except"]
    /\ UNCHANGED <<op, hist, runs, client>>

\* except Exception: _update_sync_log(sync_log, "error", 0, 1, str(e))
FullCloseError ==
    /\ full.pc = "except"
    /\ CommitOK(update_sync_log(full.sync_log, "error", 0, 1))
    /\ CountFullClose
    /\ full' = [full EXCEPT !.pc = "done"]
    /\ UNCHANGED <<op, hist, runs, client>>

FullCloseErrorFails ==
    /\ full.pc = "except"
    /\ CommitFails
    /\ CountFullClose
    /\ full' = [full EXCEPT !.pc = "raised"]
    /\ UNCHANGED <<op, hist, runs, client>>

----------------------------------------------------------------------------
(* The remote client (app/services/onshape_client.py) *)

\* OnshapeClient keeps no state between calls besides its settings; the model
\* records the requests it dispatched and the outcome of the last call.
IdleClient ==
    [pc |-> "idle", requests |-> <<>>, draws |-> 0, clock |-> 1,
     failure |-> "none", outcome |-> "none"]

\* A string is a sequence of symbols (characters, or words that are never
\* taken apart). str.lower() maps every symbol that has an upper-case letter.
Lower(sym) ==
    CASE sym = "A" -> "a"
      [] sym = "B" -> "b"
      [] sym = "GET" -> "get"
      [] sym = "POST" -> "post"
      [] sym = "DELETE" -> "delete"
      [] sym = "Thu, 01 Jan " -> "thu, 01 jan "
      [] sym = " GMT" -> " gmt"
      [] sym = "partId=" -> "partid="
      [] sym = "ownerType=0" -> "ownertype=0"
      [] OTHER -> sym

LowerStr(str) == [i \in DOMAIN str |-> Lower(str[i])]

\* string.ascii_letters + string.digits, cut down to three symbols.
NonceAlphabet == {"a", "A", "1"}

\* _generate_nonce(length): length symbols, each any symbol of the alphabet.
generate_nonce(length) == [1..length -> NonceAlphabet]

\* datetime.utcnow().strftime('%a, %d %b %Y %H:%M:%S GMT') at a clock reading.
AuthDate(clock) ==
    <<"Thu, 01 Jan ", IF clock = 1 THEN "00:00:01" ELSE "00:00:02", " GMT">>

\* urlparse(url): the symbols after the origin up to "?" are the path, those
\* after "?" the query.
QueryMark(url) ==
    IF \E i \in DOMAIN url : url[i] = "?"
    THEN CHOOSE i \in DOMAIN url :
             url[i] = "?" /\ \A j \in DOMAIN url : url[j] = "?" => i <= j
    ELSE Len(url) + 1

UrlPath(url) == SubSeq(url, 2, QueryMark(url) - 1)
UrlQuery(url) == SubSeq(url, QueryMark(url) + 1, Len(url))

\* hmac.new(secret, message, sha256).digest() and base64.b64encode: keyed
\* digest and encoding, both taken to be free of collisions.
Hmac(secret_key, message) == <<"hmac", secret_key, message>>
B64(digest) == <<"b64", digest>>

\* The string _create_signature signs.
StringToSign(method, nonce, auth_date, content_type, url_path, url_query) ==
    LowerStr(<<method, "\n">> \o nonce \o <<"\n">> \o auth_date \o <<"\n">>
             \o content_type \o <<"\n">> \o url_path \o <<"\n">>
             \o url_query \o <<"\n">>)

\* Mutant of create_signature: the signature is taken over a nonce of its own,
\* not over the one it is given.
create_signature_own_nonce(method, url, nonce, auth_date, content_type) ==
    <<"On ", "access_key", ":HmacSHA256:",
      B64(Hmac("secret_key",
               StringToSign(method, [i \in DOMAIN nonce |-> "1"], auth_date,
                            content_type, UrlPath(url), UrlQuery(url))))>>

\* _create_signature(method, url, nonce, auth_date, content_type)
create_signature(method, url, nonce, auth_date, content_type) ==
    <<"On ", "access_key", ":HmacSHA256:",
      B64(Hmac("secret_key",
               StringToSign(method, nonce, auth_date, content_type,
                            UrlPath(url), UrlQuery(url))))>>

\* f"{self.base_url}/{self.api_version}/{endpoint}"
Url(endpoint) == <<"https://cad.onshape.com", "/api", "/v6", "/">> \o endpoint

\* What requests sends: the url with the encoded params appended as its query.
SentUrl(url, params) == IF params = <<>> THEN url ELSE url \o <<"?">> \o params

\* A call of _make_request(method, endpoint, params, data); params is the
\* encoded query string ("" for None or an empty dict), data is "None",
\* "empty" (an empty dict) or "body".
ApiCall(api, method, endpoint, params, data) ==
    [api |-> api, method |-> method, endpoint |-> endpoint, params |-> params,
     data |-> data]

\* The public methods (get_document stands for the methods that pass neither
\* params nor data) and _make_request called with the other methods.
ApiCalls ==
    { ApiCall("get_documents", "GET", <<"documents">>,
              <<"ownerType=0", "&sortColumn=name&sortOrder=asc&offset=0&limit=20">>,
              "None"),
      ApiCall("get_document", "GET", <<"documents/", "d1">>, <<>>, "None"),
      ApiCall("get_part_mass_properties", "GET",
              <<"partstudios/d/", "d1", "/w/", "w1", "/e/", "e1", "/massproperties">>,
              <<"partId=", "p1">>, "None"),
      ApiCall("_make_request", "POST", <<"documents">>, <<>>, "body"),
      ApiCall("_make_request", "POST", <<"documents">>, <<>>, "empty"),
      ApiCall("_make_request", "DELETE", <<"documents/", "d1">>, <<>>, "None"),
      ApiCall("_make_request", "PUT", <<"documents/", "d1">>, <<>>, "None") }

\* A client that keeps the draw of its previous call.
StoredDraw == IF client.draws = 0 THEN 1 ELSE client.draws

\* The fresh draw of _generate_nonce this call makes.
NextDraw == client.draws + 1

\* A dispatched request as handed to requests.get/post/delete, with the
\* arguments _create_signature was called with for its Authorization header and
\* the draw of _generate_nonce its nonce came from.
Request(api, method, url, params, headers, body, signed, draw) ==
    [api |-> api, method |-> method, url |-> url, params |-> params,
     headers |-> headers, body |-> body, signed |-> signed, draw |-> draw]

Signed(method, url, nonce, auth_date, content_type) ==
    [method |-> method, url |-> url, nonce |-> nonce, auth_date |-> auth_date,
     content_type |-> content_type]

\* _make_request up to the dispatch: build the url, draw a nonce, read the
\* clock, sign, set the headers, and hand the request to requests; a method
\* other than GET, POST, DELETE raises ValueError, which the except clause for
\* RequestException does not catch. Only requests.post is given the data, as
\* json=data: requests serialises any json that is not None, an empty dict
\* included ("empty" is the body {}), and adds Content-Type application/json
\* itself when the headers have none.
MakeRequest(call, nonce) ==
    LET url == Url(call.endpoint)
        auth_date == AuthDate(client.clock)
        content_type == IF call.data = "body" THEN <<"application/json">> ELSE <<>>
        body == IF call.method = "POST" THEN call.data ELSE "None"
        headers == { <<"Date", auth_date>>,
                     <<"On-Nonce", nonce>>,
                     <<"Authorization",
                       create_signature(call.method, url, nonce, auth_date, content_type)>>,
                     <<"Accept", <<"application/json">>>> }
                   \cup (IF content_type # <<>> \/ body = "empty"
                         THEN {<<"Content-Type", <<"application/json">>>>} ELSE {})
    IN  /\ client.pc # "sent"
        /\ client.draws < MaxRequests
        /\ IF call.method \in {"GET", "POST", "DELETE"}
           THEN client' = [client EXCEPT
                    !.pc = "sent", !.draws = NextDraw,
                    !.failure = "none", !.outcome = "none",
                    !.requests = Append(@,
                        Request(call.api, call.method, url, call.params, headers, body,
                                Signed(call.method, url, nonce, auth_date, content_type),
                                NextDraw))]
           ELSE client' = [client EXCEPT
                    !.pc = "raised", !.draws = NextDraw,
                    !.failure = "unsupported", !.outcome = "ValueError"]
        /\ UNCHANGED <<db, jobs, closeCalls, pending, dirty, op, full, hist,
                       budget, runs>>

\* export_stl up to the dispatch: it signs with content type application/json
\* and sends neither a body nor a Content-Type header.
ExportStl(nonce) ==
    LET url == Url(<<"partstudios/d/", "d1", "/w/", "w1", "/e/", "e1", "/stl">>)
        params == <<"partId=", "p1", "&units=meter">>
        auth_date == AuthDate(client.clock)
        content_type == <<"application/json">>
        headers == { <<"Date", auth_date>>,
                     <<"On-Nonce", nonce>>,
                     <<"Authorization",
                       create_signature("GET", url, nonce, auth_date, content_type)>>,
                     <<"Accept", <<"application/octet-stream">>>> }
    IN  /\ client.pc # "sent"
        /\ client.draws < MaxRequests
        /\ client' = [client EXCEPT
               !.pc = "sent", !.draws = NextDraw,
               !.failure = "none", !.outcome = "none",
               !.requests = Append(@,
                   Request("export_stl", "GET", url, params, headers, "None",
                           Signed("GET", url, nonce, auth_date, content_type),
                           NextDraw))]
        /\ UNCHANGED <<db, jobs, closeCalls, pending, dirty, op, full, hist,
                       budget, runs>>

\* What can come back for a dispatched request: no response at all, a 4xx or
\* 5xx status, a 2xx with a body that is not JSON, a 2xx with no content, a
\* 2xx with JSON.
ResponseModes == {"network", "status4xx", "status5xx", "malformed", "empty", "ok"}

\* What the caller gets for each of them. Network failures and HTTP errors are
\* RequestExceptions, re-raised as a plain Exception with a message. The
\* error response.json() raises on a malformed body is a RequestException
\* (and wrapped alike) or a bare JSONDecodeError, depending on the installed
\* version of requests. export_stl returns response.content unparsed.
Surfaced(api, mode) ==
    CASE mode \in {"network", "status4xx", "status5xx"} -> {"Exception"}
      [] mode = "malformed" ->
           IF api = "export_stl" THEN {"returned"}
           ELSE {"Exception", "JSONDecodeError"}
      [] OTHER -> {"returned"}

\* The response (or its absence) for the request just dispatched.
Respond(mode, outcome) ==
    /\ client.pc = "sent"
    /\ outcome \in Surfaced(client.requests[Len(client.requests)].api, mode)
    /\ client' = [client EXCEPT
           !.pc = IF outcome = "returned" THEN "returned" ELSE "raised",
           !.failure = IF mode \in {"empty", "ok"} THEN "none" ELSE mode,
           !.outcome = outcome]
    /\ UNCHANGED <<db, jobs, closeCalls, pending, dirty, op, full, hist,
                   budget, runs>>

\* Time passes between two calls.
Tick ==
    /\ client.pc # "sent"
    /\ client.clock < MaxClock
    /\ client' = [client EXCEPT !.clock = @ + 1]
    /\ UNCHANGED <<db, jobs, closeCalls, pending, dirty, op, full, hist,
                   budget, runs>>

----------------------------------------------------------------------------
(* Top-level invocations (the background tasks of api/endpoints.py) *)

OpEnded == op.pc \in {"idle", "done", "raised"}
FullEnded == full.pc \in {"idle", "done", "raised"}

\* The arguments a targeted sync of this kind is started with.
ArgsFor(kind) ==
    CASE kind = "documents"  -> {NoArgs}
      [] kind = "workspaces" -> { Args(d, None, None) : d \in Keys }
      [] kind = "elements"   -> { Args(d, 1, None) : d \in Keys }
      [] kind = "parts"      -> { Args(1, 1, e) : e \in Keys }
      [] kind = "features"   -> { Args(1, 1, e) : e \in Keys }

ForceFor(kind) == IF kind = "documents" THEN BOOLEAN ELSE {FALSE}

\* POST /sync/<kind>: SyncService(db) on a session of its own, one sync_* call.
InvokeSync(kind, args, force_refresh) ==
    /\ OpEnded
    /\ full.pc = "idle"
    /\ runs < MaxRuns
    /\ runs = 0 \/ kind = op.kind
    /\ runs' = runs + 1
    /\ ClearSession
    /\ Call(kind, args, force_refresh)
    /\ UNCHANGED <<db, jobs, closeCalls, full, budget, client>>

\* POST /sync/full: SyncService(db) on a session of its own, one full_sync call.
InvokeFull(document_ids) ==
    /\ op.pc = "idle"
    /\ FullEnded
    /\ runs < MaxFullRuns
    /\ runs' = runs + 1
    /\ ClearSession
    /\ full' = [IdleFull EXCEPT !.pc = "create", !.document_ids = document_ids]
    /\ UNCHANGED <<db, jobs, closeCalls, op, hist, budget, client>>

----------------------------------------------------------------------------
(* Specifications *)

Init ==
    /\ db = EmptyTables
    /\ jobs = <<>>
    /\ closeCalls = <<>>
    /\ pending = EmptyTables
    /\ dirty = NoDirty
    /\ op = IdleOp
    /\ full = IdleFull
    /\ hist = NoHist
    /\ budget = MaxFaults
    /\ runs = 0
    /\ client = IdleClient

\* The steps of a sync_* call that take no input.
SyncSteps ==
    \/ OpenJob
    \/ FetchFails
    \/ RecordDetailFails
    \/ BatchCommit
    \/ CloseSuccess
    \/ CloseError

\* The steps of a sync_* call in which the storage engine fails it.
StorageFailures ==
    \/ OpenJobFails
    \/ RecordQueryRaises
    \/ BatchCommitFails
    \/ CloseSuccessFails
    \/ CloseErrorFails

\* Targeted syncs, one after the other, all of one kind; the storage engine
\* may fail MaxFaults times.
Next ==
    \/ \E kind \in Kinds : \E args \in ArgsFor(kind), force \in ForceFor(kind) :
           InvokeSync(kind, args, force)
    \/ \E page \in Pages(op.kind) : Fetch(page)
    \/ RecordBadShape
    \/ RecordNoKey
    \/ RecordSkipExisting
    \/ \E detail \in Details(op.kind), mass \in Masses(op.kind) :
           RecordUpsert(detail, mass)
    \/ SyncSteps
    \/ StorageFailures

Spec == Init /\ [][Next]_vars

\* The steps of full_sync itself.
FullSteps ==
    \/ FullOpenJob
    \/ FullCallDocuments
    \/ \E documents \in SUBSET Keys : FullAfterDocuments(documents)
    \/ \E document \in Keys : FullCallWorkspaces(document)
    \/ \E main_workspace \in {None} \cup Keys : FullAfterWorkspaces(main_workspace)
    \/ FullCallElements
    \/ FullAfterElements
    \/ \E element \in Keys : FullCallParts(element)
    \/ \E element \in Keys : FullSkipElement(element)
    \/ FullAfterParts
    \/ FullAfterFeatures
    \/ FullNextDocument
    \/ FullCloseSuccess

\* The steps of full_sync in which the storage engine fails it or a nested call.
FullStorageFailures ==
    \/ FullOpenJobFails
    \/ FullNestedRaised
    \/ FullCloseSuccessFails
    \/ FullCloseError
    \/ FullCloseErrorFails

\* A full sync over a remote that may fail any call, on a storage engine that
\* accepts every commit; storage is empty or holds what an earlier full sync
\* mirrored.
NextFull ==
    \/ \E document_ids \in SUBSET Keys : InvokeFull(document_ids)
    \/ \E page \in FullPages(op.kind) : Fetch(page)
    \/ RecordSkipExisting
    \/ \E mass \in FullMasses(op.kind) : RecordUpsert(1, mass)
    \/ SyncSteps
    \/ FullSteps

InitFull ==
    /\ \/ /\ db = EmptyTables
          /\ jobs = <<>>
          /\ closeCalls = <<>>
       \/ /\ db = MirroredTables
          /\ jobs = MirroredJobs
          /\ closeCalls = [n \in DOMAIN MirroredJobs |-> 1]
    /\ pending = EmptyTables
    /\ dirty = NoDirty
    /\ op = IdleOp
    /\ full = IdleFull
    /\ hist = NoHist
    /\ budget = 0
    /\ runs = 0
    /\ client = IdleClient

SpecFull == InitFull /\ [][NextFull]_vars

\* A full sync of one document with one workspace, a part studio and an assembly, one part
\* and one feature, on a storage engine that may fail MaxFullFaults times.
NextFullFaults ==
    \/ InvokeFull({})
    \/ \E page \in FaultPages(op.kind) : Fetch(page)
    \/ RecordUpsert(1, 1)
    \/ SyncSteps
    \/ StorageFailures
    \/ FullSteps
    \/ FullStorageFailures

InitFullFaults ==
    /\ db = EmptyTables
    /\ jobs = <<>>
    /\ closeCalls = <<>>
    /\ pending = EmptyTables
    /\ dirty = NoDirty
    /\ op = IdleOp
    /\ full = IdleFull
    /\ hist = NoHist
    /\ budget = MaxFullFaults
    /\ runs = 0
    /\ client = IdleClient

SpecFullFaults == InitFullFaults /\ [][NextFullFaults]_vars

\* Another task running the same sync_* call with the same arguments on a
\* session of its own (every request gets its session from get_db and runs its
\* sync as a background task; nothing serialises two tasks). Its whole run
\* falls between a look-up and the batch commit of the task followed here: it
\* opens its job, finds the key of the one record it fetched missing, adds the
\* row, commits and closes its job as success.
PeerSync(item) ==
    /\ op.pc = "loop"
    /\ item.shape = "dict" /\ HasKey(item)
    /\ Lookup(db[op.kind], item.id) = None
    /\ db' = [db EXCEPT ![op.kind] =
                 Append(@, Created(item.id, ParentOf(op.kind, op.args),
                                   Remote(op.kind, item, item.name, None)))]
    /\ jobs' = Append(jobs, SyncLog(op.kind, "success", 1, 0, 1))
    /\ closeCalls' = Append(closeCalls, 1)
    /\ UNCHANGED <<pending, dirty, op, full, hist, budget, runs, client>>

\* Targeted syncs over lists of well-formed records on a storage engine that
\* fails no statement, with a second task of the same kind running beside.
NextConcurrent ==
    \/ \E kind \in Kinds : \E args \in ArgsFor(kind), force \in ForceFor(kind) :
           InvokeSync(kind, args, force)
    \/ \E page \in FullPages(op.kind) : Fetch(page)
    \/ RecordSkipExisting
    \/ \E detail \in Details(op.kind), mass \in FullMasses(op.kind) :
           RecordUpsert(detail, mass)
    \/ SyncSteps
    \/ BatchCommitFails
    \/ \E item \in Items(op.kind) : PeerSync(item)

InitConcurrent ==
    /\ db = EmptyTables
    /\ jobs = <<>>
    /\ closeCalls = <<>>
    /\ pending = EmptyTables
    /\ dirty = NoDirty
    /\ op = IdleOp
    /\ full = IdleFull
    /\ hist = NoHist
    /\ budget = 0
    /\ runs = 0
    /\ client = IdleClient

SpecConcurrent == InitConcurrent /\ [][NextConcurrent]_vars

\* Calls of the remote client, one after the other, against a remote that
\* answers or fails in every way.
NextClient ==
    \/ \E call \in ApiCalls, nonce \in generate_nonce(NonceLen) :
           MakeRequest(call, nonce)
    \/ \E nonce \in generate_nonce(NonceLen) : ExportStl(nonce)
    \/ \E mode \in ResponseModes, outcome \in {"returned", "Exception", "JSONDecodeError"} :
           Respond(mode, outcome)
    \/ Tick

SpecClient == Init /\ [][NextClient]_vars

----------------------------------------------------------------------------
(* Claims *)

Done == op.pc = "done"
Job == jobs[op.sync_log]
ClosedSuccess == Done /\ Job.status = "success"

RowsWith(tbl, key) == { i \in DOMAIN tbl : tbl[i].key = key }

\* The records of a page that are key/value objects carrying their key.
Keyed(page) == { i \in DOMAIN page : page[i].shape = "dict" /\ page[i].id # None }
Keyless(page) == { i \in DOMAIN page : page[i].shape = "dict" /\ page[i].id = None }

\* C1: for every entity type, a key is stored in at most one row; a sync run
\* never queues an insert for a key that is already stored (it finds the
\* existing row instead); and after a run that closed as success every key it
\* reconciled is stored in exactly one row.
C1_OneRecordPerKey ==
    /\ \A k \in Kinds :
        /\ \A i, j \in DOMAIN db[k] : db[k][i].key = db[k][j].key => i = j
        /\ \A n \in DOMAIN pending[k] : RowsWith(db[k], pending[k][n].key) = {}
    /\ ClosedSuccess =>
           \A key \in hist.stored : Cardinality(RowsWith(db[op.kind], key)) = 1

\* C1 witness: the second of two runs closed as success after reconciling a key
\* the first run had stored, and the key is stored once.
C1_Witness ==
    /\ runs = 2
    /\ ClosedSuccess
    /\ Len(jobs) = 2 /\ jobs[1].status = "success"
    /\ \E key \in hist.stored :
           /\ RowsWith(hist.pre, key) # {}
           /\ key \in DOMAIN hist.obs
           /\ Cardinality(RowsWith(db[op.kind], key)) = 1

StoredRow(key) == db[op.kind][Lookup(db[op.kind], key)]

AlreadyStored == { i \in Keyed(op.page) : RowsWith(hist.pre, op.page[i].id) # {} }

C5_RecordFailureIsolated ==
    [][ hist'.raised = hist.raised + 1 =>
            /\ op'.errors = op.errors + 1
            /\ op'.pc = "loop" /\ op'.i = op.i + 1 ]_vars

\* C6 as stated: the step that handles an item that is not a key/value object
\* counts one error and goes on with the next record.
C6_BadShapeIsolated ==
    [][ (InLoop /\ Cur.shape = "bad") =>
            /\ op'.errors = op.errors + 1 /\ op'.processed = op.processed
            /\ op'.pc = "loop" /\ op'.i = op.i + 1 ]_vars

\* C7: after a part sync that closed as success, every part whose
\* mass-properties fetch failed is stored, and unless the storage engine
\* failed a statement no record is counted as an error and every record
\* carrying a key is counted as processed.
C7_MassFailureTolerated ==
    (ClosedSuccess /\ op.kind = "parts") =>
        /\ \A key \in hist.mpFailed : RowsWith(db["parts"], key) # {}
        /\ budget = MaxFaults =>
               /\ Job.errors_count = 0
               /\ Job.records_processed = Cardinality(Keyed(op.page))

\* C7 witness: a part sync closed as success over two parts, the
\* mass-properties fetch failed for one and answered for the other, both
\* stored and counted.
C7_Witness ==
    /\ ClosedSuccess /\ op.kind = "parts"
    /\ Job.records_processed = 2 /\ Job.errors_count = 0
    /\ \E failed \in hist.mpFailed : \E other \in hist.stored \ hist.mpFailed :
           /\ StoredRow(failed).mass_properties = None
           /\ StoredRow(other).mass_properties # None

\* C8 as stated: once the invocation has ended, no job is in_progress.
C8_JobsTerminate ==
    (OpEnded /\ FullEnded) =>
        \A n \in DOMAIN jobs : jobs[n].status # "in_progress"

\* C9 as stated: completed_at is written at most once, exactly when the status
\* leaves in_progress, and the close step is called at most once per job.
C9_FinalizedOnce ==
    \A n \in DOMAIN jobs :
        /\ jobs[n].completed_at <= 1
        /\ jobs[n].status = "in_progress" <=> jobs[n].completed_at = 0
        /\ closeCalls[n] <= 1

\* C10 as stated: a sync_* call whose list fetch failed closes its job as
\* error, and a full sync whose document list fetch failed does not close its
\* root job as success.
C10_FailedFetchNotSuccess ==
    /\ (Done /\ hist.listFailed) => Job.status = "error"
    /\ (full.pc = "done" /\ full.doc_result.status = "error") =>
           jobs[full.sync_log].status # "success"

\* The root job of the running full sync and the jobs of its nested calls.
Root == jobs[full.sync_log]
FullDone == full.pc = "done"

RECURSIVE SumProcessed(_)
SumProcessed(n) ==
    IF n > Len(jobs) THEN 0 ELSE jobs[n].records_processed + SumProcessed(n + 1)

RECURSIVE SumErrors(_)
SumErrors(n) ==
    IF n > Len(jobs) THEN 0 ELSE jobs[n].errors_count + SumErrors(n + 1)

\* C11: a full sync never takes its except branch because a document has no
\* workspaces: the step after a workspace sync that listed nothing, for a
\* document with no main workspace stored, goes on with the remaining documents
\* and leaves the totals alone; and the full sync closes its root job as
\* success with the records_processed of every nested job (workspaces,
\* elements, parts, features of the other documents) added up.
C11_NoWorkspacesNoAbort ==
    /\ [](full.pc # "except")
    /\ [](FullDone => /\ Root.status = "success"
                      /\ Root.records_processed = SumProcessed(full.sync_log + 1))
    /\ [][ ( /\ full.pc = "workspaces" /\ op.pc = "done"
             /\ op.result.status = "success" /\ op.page = <<>>
             /\ MainWorkspaces(full.document) = {} ) =>
               /\ full'.pc = "docloop"
               /\ full'.documents = full.documents
               /\ full'.total_processed = full.total_processed ]_vars

\* C11 witness: a full sync over two documents closed as success; the first it
\* visited had no workspaces, the second a main workspace with a part studio
\* whose part and feature were counted.
C11_Witness ==
    /\ FullDone /\ Root.status = "success" /\ Root.records_processed >= 4
    /\ \E w1, w2, e, p, f \in DOMAIN jobs :
           /\ full.sync_log < w1 /\ w2 = w1 + 1 /\ w2 < e /\ e < p /\ p < f
           /\ jobs[w1] = SyncLog("workspaces", "success", 0, 0, 1)
           /\ jobs[w2].sync_type = "workspaces" /\ jobs[w2].records_processed >= 1
           /\ jobs[e].sync_type = "elements" /\ jobs[e].records_processed >= 1
           /\ jobs[p] = SyncLog("parts", "success", 1, 0, 1)
           /\ jobs[f] = SyncLog("features", "success", 1, 0, 1)

\* C12 as stated: when a full sync has short-circuited a document (no main
\* workspace found for it), nothing was run below it and the job record of the
\* run that names the document, the one of its workspace sync, is a
\* zero-progress note.
C12_ShortCircuitNoted ==
    (full.pc = "docloop" /\ full.document # None /\ full.main_workspace = None) =>
        /\ jobs[Len(jobs)].sync_type = "workspaces"
        /\ jobs[Len(jobs)].records_processed = 0

\* C13 as stated: in a full sync, after a workspace sync whose list fetch
\* failed no element sync is run for the document, and after an element sync
\* whose list fetch failed no part or feature sync is run for an element of
\* the document.
C13_FailedListAbortsSubtree ==
    [][ (op.pc = "done" /\ hist.listFailed) =>
            /\ full.pc = "workspaces" => full'.pc # "main"
            /\ full.pc = "elements" =>
                   \A element \in full'.elements :
                       ElementType(element) # "PARTSTUDIO" ]_vars

\* C14: in a full sync a failed list fetch is caught inside the nested sync;
\* the step of full_sync that follows it neither takes the except branch nor
\* drops a document or an element still to visit; a document leaves the set
\* still to visit only by having its workspace sync called; and when the root
\* job closes, it closes as success with nothing left to visit.
C14_FailedListSparesSiblings ==
    /\ [](hist.listFailed => op.pc \in {"except", "done"})
    /\ [](FullDone => /\ Root.status = "success"
                      /\ full.documents = {} /\ full.elements = {})
    /\ [][ (op.pc = "done" /\ hist.listFailed /\ full.pc \in Waiting) =>
               /\ full'.pc \notin {"except", "raised", "done"}
               /\ full.pc # "documents" => full'.documents = full.documents
               /\ full.pc = "documents" =>
                      full'.documents \subseteq KeysOf(db["documents"])
               /\ full.pc \in {"parts", "features"} =>
                      full'.elements = full.elements
               /\ full.pc = "elements" =>
                      full'.elements = ElementsOf(full.document) ]_vars
    /\ [][ \A document \in full.documents \ full'.documents :
               /\ op'.pc = "create" /\ op'.kind = "workspaces"
               /\ op'.args.document_id = document ]_vars

\* C14 witness: a full sync closed as success in which a workspace list fetch
\* failed and a later document had its workspaces synced, and a part list
\* fetch failed and a later element had its parts synced.
C14_Witness ==
    /\ FullDone /\ Root.status = "success"
    /\ \E w1, w2, p1, p2 \in DOMAIN jobs :
           /\ full.sync_log < w1 /\ w1 < w2 /\ w2 < p1 /\ p1 < p2
           /\ jobs[w1] = SyncLog("workspaces", "error", 0, 1, 1)
           /\ jobs[w2].sync_type = "workspaces" /\ jobs[w2].status = "success"
           /\ jobs[p1] = SyncLog("parts", "error", 0, 1, 1)
           /\ jobs[p2] = SyncLog("parts", "success", 1, 0, 1)

\* C15 as stated: when a full sync has closed its root job as success, the
\* root's records_processed is the sum of the records_processed of the nested
\* jobs it ran and its errors_count the sum of their errors_count.
C15_RootSumsNested ==
    (FullDone /\ Root.status = "success") =>
        /\ Root.records_processed = SumProcessed(full.sync_log + 1)
        /\ Root.errors_count = SumErrors(full.sync_log + 1)

\* The jobs of one sync_type the running full sync has opened.
NestedOf(sync_type) ==
    { n \in DOMAIN jobs : n > full.sync_log /\ jobs[n].sync_type = sync_type }

\* C16: in a full sync, a part or feature sync only ever runs for a stored
\* element of type PARTSTUDIO; an element taken off the list is either a
\* PARTSTUDIO, and its part sync is called, or of another type, and nothing is
\* called; when the part sync returns, the feature sync is called with the same
\* arguments; and a feature sync is called nowhere else.
C16_PartStudioOnly ==
    /\ []((full.pc # "idle" /\ op.pc # "idle" /\ op.kind \in {"parts", "features"}) =>
             ElementType(op.args.element_id) = "PARTSTUDIO")
    /\ [][ \A element \in full.elements \ full'.elements :
               IF ElementType(element) = "PARTSTUDIO"
               THEN /\ op'.pc = "create" /\ op'.kind = "parts"
                    /\ op'.args.element_id = element
               ELSE op' = op /\ jobs' = jobs ]_vars
    /\ [][ (full.pc = "parts" /\ full'.pc # "parts") =>
               /\ full'.pc = "features"
               /\ op'.pc = "create" /\ op'.kind = "features"
               /\ op'.args = op.args ]_vars
    /\ [][ (op'.pc = "create" /\ op.pc # "create" /\ op'.kind = "features") =>
               (full.pc = "parts" /\ op.kind = "parts" /\ op.pc = "done") ]_vars

\* C16 witness: a full sync closed after visiting a document with a part
\* studio and an element of another type, having run one part sync and, after
\* it, one feature sync.
C16_Witness ==
    /\ FullDone
    /\ \E i, j \in DOMAIN db["elements"] :
           /\ db["elements"][i].element_type = "PARTSTUDIO"
           /\ db["elements"][j].element_type # "PARTSTUDIO"
           /\ db["elements"][i].parent = db["elements"][j].parent
    /\ Cardinality(NestedOf("elements")) = 1
    /\ Cardinality(NestedOf("parts")) = 1
    /\ Cardinality(NestedOf("features")) = 1
    /\ \A p \in NestedOf("parts") : \A f \in NestedOf("features") : f = p + 1

\* C17 as stated: the documents a full sync sets out to visit are the listed
\* ones when a list is given, and at most 10 otherwise; and a full sync given
\* a list that has closed its root job as success has run one workspace sync
\* per listed document id.
C17_ListedDocumentsVisited ==
    /\ (full.pc = "docloop" /\ full.document = None) =>
           IF full.document_ids # {}
           THEN full.documents = full.document_ids
           ELSE Cardinality(full.documents) <= DocumentLimit
    /\ (FullDone /\ Root.status = "success" /\ full.document_ids # {}) =>
           Cardinality(NestedOf("workspaces")) = Cardinality(full.document_ids)

\* The page lists key/value records with distinct keys, exactly one of them
\* flagged isMain.
OneMainListed(page) ==
    /\ \A i \in DOMAIN page : page[i].shape = "dict" /\ page[i].id # None
    /\ \A i, j \in DOMAIN page : page[i].id = page[j].id => i = j
    /\ Cardinality({ i \in DOMAIN page : page[i].isMain }) = 1

\* C18 as stated: after a workspace sync for document d that closed as success
\* with no record raising, over a list of distinct workspaces one of which is
\* flagged isMain, every listed workspace is stored with parent d and the
\* main-workspace lookup for d can only return the flagged one.
C18_MainWorkspaceFound ==
    ( /\ ClosedSuccess /\ op.kind = "workspaces" /\ hist.raised = 0
      /\ OneMainListed(op.page) ) =>
        /\ \A i \in DOMAIN op.page :
               \E n \in RowsWith(db["workspaces"], op.page[i].id) :
                   db["workspaces"][n].parent = op.args.document_id
        /\ \A i \in DOMAIN op.page :
               op.page[i].isMain =>
                   MainWorkspaces(op.args.document_id) = {op.page[i].id}

\* C19 as stated: from the list fetch on, the only step of a sync operation
\* that changes the entity tables is the commit issued after the loop; no
\* step inside the loop and no step of the failure handler persists a record
\* of the batch.
C19_AtomicBatch ==
    [][ (op.pc \in {"fetch", "loop", "except"} /\ ~(AtCommit /\ op'.pc = "close")) =>
            db' = db ]_vars

\* C20 as stated: with another task of the same kind running beside, no key a
\* task found missing and queued for insert is stored by the other task before
\* its commit, and no task whose list fetch succeeded loses its batch and
\* closes its job as error.
C20_NoRaceOnKey ==
    /\ \A n \in DOMAIN pending[op.kind] :
           RowsWith(db[op.kind], pending[op.kind][n].key) = {}
    /\ (Done /\ ~hist.listFailed) => Job.status = "success"

\* The values of one header of a dispatched request (none when it is not sent).
HeaderOf(request, name) ==
    { h[2] : h \in { x \in request.headers : x[1] = name } }

\* C21 as stated: two dispatched requests signed with the same method, URL,
\* timestamp and content type and with different nonces carry different
\* Authorization values.
C21_NonceChangesSignature ==
    \A i, j \in DOMAIN client.requests :
        LET r1 == client.requests[i]
            r2 == client.requests[j]
        IN  ( /\ r1.signed.method = r2.signed.method
              /\ r1.signed.url = r2.signed.url
              /\ r1.signed.auth_date = r2.signed.auth_date
              /\ r1.signed.content_type = r2.signed.content_type
              /\ r1.signed.nonce # r2.signed.nonce ) =>
                HeaderOf(r1, "Authorization") # HeaderOf(r2, "Authorization")

\* The Authorization value the server recomputes from what it is sent: the
\* Date and On-Nonce headers, with the method, content type and url the
\* client signed.
Recomputed(request) ==
    { <<"On ", "access_key", ":HmacSHA256:",
        B64(Hmac("secret_key",
                 StringToSign(request.signed.method, nonce, auth_date,
                              request.signed.content_type,
                              UrlPath(request.signed.url),
                              UrlQuery(request.signed.url))))>> :
        nonce \in HeaderOf(request, "On-Nonce"),
        auth_date \in HeaderOf(request, "Date") }

\* C22: every dispatched request carries one Date header and one On-Nonce
\* header, they are the timestamp and the nonce its signature was computed
\* from, and its Authorization header is the signature over exactly them.
C22_HeadersAreSigned ==
    \A i \in DOMAIN client.requests :
        LET request == client.requests[i]
        IN  /\ HeaderOf(request, "Date") = {request.signed.auth_date}
            /\ HeaderOf(request, "On-Nonce") = {request.signed.nonce}
            /\ HeaderOf(request, "Authorization") = Recomputed(request)

\* C22 witness: a JSON call and an STL export were dispatched, the nonce of one
\* holding an upper-case letter.
C22_Witness ==
    /\ Len(client.requests) = 2
    /\ client.requests[1].api = "get_documents"
    /\ client.requests[2].api = "export_stl"
    /\ client.requests[2].signed.nonce = <<"A", "1">>
    /\ HeaderOf(client.requests[2], "On-Nonce") = {<<"A", "1">>}

\* C23 as stated: for every dispatched request the query component that was
\* signed is the query string of the url the request is sent to (empty only
\* when it is sent without query parameters).
C23_SignedQueryIsSentQuery ==
    \A i \in DOMAIN client.requests :
        LET request == client.requests[i]
        IN  UrlQuery(request.signed.url) =
                UrlQuery(SentUrl(request.url, request.params))

\* C24 as stated: for every dispatched request the content-type that was
\* signed is the empty string when the request has no body, and otherwise is
\* the value of the Content-Type header sent with the request.
C24_SignedContentTypeIsSent ==
    \A i \in DOMAIN client.requests :
        LET request == client.requests[i]
        IN  IF request.body = "None"
            THEN request.signed.content_type = <<>>
            ELSE HeaderOf(request, "Content-Type") =
                     {request.signed.content_type}

\* C25: every step that dispatches a request attaches a nonce drawn for that
\* request alone (its draw is later than the draw of every request dispatched
\* before, failed ones included, and is the only draw made since the previous
\* step) and the timestamp read at that step, the Authorization value being
\* the signature of these two; nothing already in the log of dispatched
\* requests is touched, so no request is dispatched twice.
C25_SignedPerDispatch ==
    [][ client'.requests # client.requests =>
          /\ Len(client'.requests) = Len(client.requests) + 1
          /\ SubSeq(client'.requests, 1, Len(client.requests)) = client.requests
          /\ LET request == client'.requests[Len(client'.requests)]
             IN  /\ \A i \in DOMAIN client.requests :
                        client.requests[i].draw < request.draw
                 /\ request.draw = client'.draws
                 /\ client'.draws = client.draws + 1
                 /\ HeaderOf(request, "Date") = {AuthDate(client.clock)}
                 /\ HeaderOf(request, "Authorization") = Recomputed(request)
      ]_vars

\* The same call again after a network failure and a while: a new draw and a
\* new timestamp.
C25_Witness ==
    /\ Len(client.requests) = 2
    /\ client.requests[1].api = "get_document"
    /\ client.requests[2].api = "get_document"
    /\ client.requests[1].draw # client.requests[2].draw
    /\ client.requests[1].signed.auth_date # client.requests[2].signed.auth_date
    /\ client.pc = "raised"
    /\ client.failure = "network"

\* The three failure modes of the interface: no response, a non-2xx status,
\* a payload that cannot be parsed.
FailureKind(mode) ==
    CASE mode = "network" -> "network"
      [] mode \in {"status4xx", "status5xx"} -> "status"
      [] mode = "malformed" -> "malformed"
      [] OTHER -> "none"

\* C26 as stated: when a call of the client fails, the error the caller gets
\* is one that a failure of another kind (network, non-2xx status, malformed
\* payload) could not have produced, so the error tells the kind.
C26_FailureKindsDistinct ==
    client.pc = "raised" /\ FailureKind(client.failure) # "none" =>
        \A mode \in ResponseModes :
            /\ FailureKind(mode) # "none"
            /\ FailureKind(mode) # FailureKind(client.failure)
            => client.outcome \notin
                   Surfaced(client.requests[Len(client.requests)].api, mode)

\* C27: no step of any sync operation, successful or failed, removes an
\* external key from the stored keys of any entity type: the set of stored
\* keys of each type only grows, also when a later fetched list no longer
\* holds a stored key.
C27_NothingDeleted ==
    [][ \A k \in Kinds : KeysOf(db[k]) \subseteq KeysOf(db'[k]) ]_vars

\* A second sync of the same type has closed as success on a list that lacks
\* a key the first one stored: the key is still stored.
C27_Witness ==
    /\ runs = 2
    /\ ClosedSuccess
    /\ Keyed(op.page) # {}
    /\ \E key \in KeysOf(db[op.kind]) :
           \A i \in DOMAIN op.page : op.page[i].id # key

C29_OrderInsideOperation ==
    /\ [](op.pc \in {"fetch", "loop", "close", "except"} =>
             /\ op.sync_log \in DOMAIN jobs
             /\ Job.status = "in_progress")
    /\ [][ /\ (op'.pc = "loop" /\ op.pc # "loop") => op.pc = "fetch"
           /\ (\/ pending' # pending
               \/ dirty' # dirty) =>
                  \/ op.pc = "loop" /\ op'.pc = "loop" /\ op.i <= Len(op.page)
                  \/ pending' = EmptyTables /\ dirty' = NoDirty
           /\ (op'.pc = "close" /\ op.pc # "close") =>
                  /\ op.pc = "loop"
                  /\ op.i > Len(op.page)
                  /\ db' = [k \in Kinds |-> Flushed(k)]
                  /\ pending' = EmptyTables
                  /\ dirty' = NoDirty
           /\ (op.sync_log \in DOMAIN jobs /\ Job.status = "in_progress"
               /\ jobs'[op.sync_log].status = "success") =>
                  /\ op.pc = "close"
                  /\ pending = EmptyTables
                  /\ dirty = NoDirty
                  /\ db' = db
           /\ op.pc = "done" =>
                  /\ db' = db
                  /\ jobs' = jobs
                  /\ op' = op \/ op'.pc = "create" ]_vars
    /\ [](ClosedSuccess =>
             /\ hist.stored \subseteq KeysOf(db[op.kind])
             /\ pending = EmptyTables
             /\ dirty = NoDirty)
    /\ []((op.sync_log \in DOMAIN jobs /\ Job.status # "in_progress") =>
             op.pc = "done")

\* A part sync has closed as success after writing two parts: both are stored.
C29_Witness ==
    /\ ClosedSuccess
    /\ op.kind = "parts"
    /\ Len(op.page) = 2
    /\ Cardinality(hist.stored) = 2
    /\ hist.stored \subseteq KeysOf(db["parts"])

\* The workspaces the list fetched by the workspace sync that just returned
\* flags as main.
FetchedMain ==
    IF hist.listFailed THEN {}
    ELSE { op.page[i].id : i \in { j \in Keyed(op.page) : op.page[j].isMain } }

\* C30 as stated: when a full sync goes on to the element sync of a document,
\* the workspace it has selected is one that the workspace list fetched just
\* before, in the same run, flags as main.
C30_MainFromFetchedList ==
    [][ (full.pc = "workspaces" /\ full'.pc = "main") =>
            full'.main_workspace \in FetchedMain ]_vars

\* The elements the list fetched by the element sync that just returned holds.
FetchedElements ==
    IF hist.listFailed THEN {}
    ELSE { op.page[i].id : i \in Keyed(op.page) }

\* C31 as stated: when the element sync of a document has returned, the
\* elements of type PARTSTUDIO that full_sync lists to run part and feature
\* sync for are among those the element list fetched just before, in the same
\* run, returned.
C31_VisitsFetchedElements ==
    [][ (full.pc = "elements" /\ full'.pc = "elemloop") =>
            \A element \in full'.elements :
                ElementType(element) = "PARTSTUDIO" =>
                    element \in FetchedElements ]_vars

\* The jobs the running full sync has opened below its root.
Nested == { n \in DOMAIN jobs : n > full.sync_log }

\* C32: a nested operation that returns to full_sync with an error result
\* leaves both totals of full_sync as they were; and when a full sync has
\* ended and every nested job it opened is closed as error, its root job is
\* closed as success with records_processed = 0 and errors_count = 0.
C32_AllFailedStillSuccess ==
    /\ [][ (full.pc \in Waiting /\ op.pc = "done"
            /\ op.result.status = "error" /\ full'.pc # full.pc) =>
               /\ full'.total_processed = full.total_processed
               /\ full'.total_errors = full.total_errors ]_vars
    /\ []((FullDone /\ Nested # {}
           /\ \A n \in Nested : jobs[n].status = "error") =>
              /\ Root.status = "success"
              /\ Root.records_processed = 0
              /\ Root.errors_count = 0)

\* A full sync over stored entities in which every remote list call failed,
\* down to the feature sync.
C32_Witness ==
    /\ FullDone
    /\ \A n \in Nested : jobs[n] = SyncLog(jobs[n].sync_type, "error", 0, 1, 1)
    /\ \A sync_type \in Kinds : NestedOf(sync_type) # {}
    /\ Root = SyncLog("full_sync", "success", 0, 0, 1)

\* The keys, not stored when the operation started, that two records of the
\* fetched list carry.
TwiceNew ==
    { op.page[i].id : i \in
        { j \in Keyed(op.page) :
            /\ RowsWith(hist.pre, op.page[j].id) = {}
            /\ \E k \in Keyed(op.page) : k # j /\ op.page[k].id = op.page[j].id } }

\* C33 as stated: when a sync operation has ended on a list in which a key
\* not stored before appears in two records, no record of the list raised and
\* the storage engine did not fail, its job is closed as success and every
\* key of the list is stored in exactly one row.
C33_DuplicateInBatchMerged ==
    (Done /\ TwiceNew # {} /\ hist.raised = 0 /\ budget = MaxFaults) =>
        /\ Job.status = "success"
        /\ \A i \in Keyed(op.page) :
               Cardinality(RowsWith(db[op.kind], op.page[i].id)) = 1

\* C34: no step changes the key or the parent of a stored row; the step that
\* reconciles a record whose key is stored counts it as processed, whatever
\* parent the running call names; and a workspace, element, part or feature
\* sync that closed as success leaves every stored row it observed under the
\* parent it had before, with the mutable fields last observed.
C34_ParentSetAtCreation ==
    /\ [][ /\ \A k \in Kinds : \A i \in DOMAIN db[k] :
                 /\ i \in DOMAIN db'[k]
                 /\ db'[k][i].key = db[k][i].key
                 /\ db'[k][i].parent = db[k][i].parent
           /\ dirty' # dirty /\ dirty' # NoDirty =>
                 /\ op'.processed = op.processed + 1
                 /\ \A i \in DOMAIN dirty'[op.kind] :
                        dirty'[op.kind][i].parent = db[op.kind][i].parent ]_vars
    /\ []((ClosedSuccess /\ op.kind # "documents") =>
             \A key \in DOMAIN hist.obs :
                 /\ StoredRow(key).parent = hist.pre[Lookup(hist.pre, key)].parent
                 /\ Mutable(StoredRow(key)) = hist.obs[key])

\* A part sync for one element has closed as success after observing a part
\* stored under the other element: the part is still under its first element
\* and carries the new mass properties.
C34_Witness ==
    /\ ClosedSuccess
    /\ op.kind = "parts"
    /\ op.processed = 1
    /\ \E key \in DOMAIN hist.obs :
           /\ StoredRow(key).parent # op.args.element_id
           /\ StoredRow(key).parent = hist.pre[Lookup(hist.pre, key)].parent
           /\ Mutable(hist.pre[Lookup(hist.pre, key)]) # hist.obs[key]
           /\ Mutable(StoredRow(key)) = hist.obs[key]

\* C35: the step of a part sync in which the mass-properties fetch fails
\* writes the part with absent mass properties, whether the part is new or
\* stored; and after a part sync that closed as success, every part found
\* stored holds the result of the last mass-properties fetch made for it
\* (absent when that fetch failed, whatever was stored before), and every
\* part created holds absent mass properties exactly when its fetch failed.
C35_MassPropertiesAreThisRuns ==
    /\ [][ (op.kind = "parts" /\ InLoop /\ hist'.mpFailed # hist.mpFailed) =>
              IF Lookup(db["parts"], Cur.id) # None
              THEN dirty'["parts"][Lookup(db["parts"], Cur.id)].mass_properties = None
              ELSE /\ Len(pending'["parts"]) = Len(pending["parts"]) + 1
                   /\ pending'["parts"][Len(pending'["parts"])].key = Cur.id
                   /\ pending'["parts"][Len(pending'["parts"])].mass_properties = None
         ]_vars
    /\ []((ClosedSuccess /\ op.kind = "parts") =>
             /\ \A key \in DOMAIN hist.obs :
                    StoredRow(key).mass_properties = hist.obs[key].mass_properties
             /\ \A key \in hist.stored \ DOMAIN hist.obs :
                    StoredRow(key).mass_properties = None <=> key \in hist.mpFailed)

\* A part stored with mass properties by an earlier run was synced again, the
\* mass-properties fetch failed, and the part is stored without them.
C35_Witness ==
    /\ ClosedSuccess
    /\ op.kind = "parts"
    /\ Len(op.page) = 1
    /\ \E key \in DOMAIN hist.obs :
           /\ key \in hist.mpFailed
           /\ hist.pre[Lookup(hist.pre, key)].mass_properties # None
           /\ StoredRow(key).mass_properties = None

\* The keys of the rows the session holds to write for the running operation.
SessionKeys(p, d) ==
    KeysOf(p[op.kind]) \cup { d[op.kind][i].key : i \in DOMAIN d[op.kind] }

\* C36 as stated: in a sync operation that closed its job as success,
\* records_processed is the number of local records the operation created or
\* updated, errors_count the number of records whose processing raised, and
\* their sum is at most the number of records fetched.
C36_CountsAreRecords ==
    ClosedSuccess =>
        /\ Job.records_processed = Cardinality(hist.stored)
        /\ Job.errors_count = hist.raised
        /\ Job.records_processed + Job.errors_count <= Len(op.page)

\* C36 amended: each step over a fetched record moves on to the next record
\* and adds at most one to one of the two counters; it adds one to processed
\* exactly when it creates or updates the local record of that record's key;
\* and in an operation that closed as success errors_count is the number of
\* records whose processing raised, the sum of the two counters is at most the
\* number of records fetched, and records_processed is at least the number of
\* local records created or updated, and equal to it when no key appears in
\* two records of the list.
C36_CountsAreReconciliations ==
    /\ [][ (op.pc = "loop" /\ op'.pc = "loop") =>
             /\ op' # op => op'.i = op.i + 1
             /\ op'.processed + op'.errors \in
                    {op.processed + op.errors, op.processed + op.errors + 1}
             /\ op'.processed \in {op.processed, op.processed + 1}
             /\ op'.errors \in {op.errors, op.errors + 1}
             /\ op'.processed = op.processed + 1 =>
                    /\ Cur.id # None
                    /\ Cur.id \in SessionKeys(pending', dirty')
             /\ (pending' # pending \/ dirty' # dirty) =>
                    op'.processed = op.processed + 1 ]_vars
    /\ [](ClosedSuccess =>
             /\ Job.errors_count = hist.raised
             /\ Job.records_processed + Job.errors_count <= Len(op.page)
             /\ Job.records_processed >= Cardinality(hist.stored)
             /\ (\A i, j \in Keyed(op.page) : op.page[i].id = op.page[j].id => i = j)
                    => Job.records_processed = Cardinality(hist.stored))

\* A sync closed as success over a list that holds a stored key twice: two
\* records counted, one local record updated.
C36_Witness ==
    /\ ClosedSuccess
    /\ Len(op.page) = 2
    /\ Job.records_processed = 2
    /\ Cardinality(hist.stored) = 1
    /\ hist.stored \subseteq DOMAIN hist.obs

LostRace ==
    { pending[op.kind][n].key : n \in
        { m \in DOMAIN pending[op.kind] :
            RowsWith(db[op.kind], pending[op.kind][m].key) # {} } }

\* C38: with another task of the same kind running beside, no entity table
\* ever holds two rows with the same external key; and no step of a task that
\* queued an insert for a key the other task has stored in between makes that
\* insert, or any other change to the entity tables, durable.
C38_OneInsertDurable ==
    /\ [](\A k \in Kinds : \A key \in KeysOf(db[k]) :
              Cardinality(RowsWith(db[k], key)) = 1)
    /\ [][ LostRace # {} =>
              \/ db' = db
              \/ /\ op.pc = "loop"
                 /\ pending' = pending
                 /\ Len(db'[op.kind]) = Len(db[op.kind]) + 1
                 /\ db'[op.kind][Len(db'[op.kind])].key \notin KeysOf(db[op.kind])
         ]_vars

\* Both tasks found the key missing and inserted it: the other task's insert
\* is stored, the followed task's batch commit failed and its job closed as
\* error, and the key is stored once.
C38_Witness ==
    /\ Done
    /\ Job.status = "error"
    /\ ~hist.listFailed
    /\ \E key \in hist.stored :
           /\ RowsWith(hist.pre, key) = {}
           /\ Cardinality(RowsWith(db[op.kind], key)) = 1
    /\ \E n \in DOMAIN jobs : n > op.sync_log /\ jobs[n].status = "success"

====
